---------------------------- MODULE Spec2Model ----------------------------
(***************************************************************************)
(* Model of the RecordAnswer component                                     *)
(* (src/src/components/record-answer.tsx): the recording lifecycle, the    *)
(* transcript aggregation, the evaluation call with its tiered JSON        *)
(* extraction, and the check-then-insert save.                             *)
(*                                                                         *)
(* Texts are sequences of one-character strings; an AI response is a       *)
(* sequence of lexical tokens.  Every handler runs to its first await as   *)
(* one step; each continuation after an await is one step.                 *)
(***************************************************************************)
EXTENDS Integers, Sequences, FiniteSets, TLC

\* ------------------------------------------------------------- bounds
MaxResults == 2     \* final segments the speech engine delivers
MaxPending == 2     \* calls and timers in flight

\* the words the speech engine recognises, in the order it hears them
Words == <<"a", "b", "c", "d">>
Questions == {"q1"}         \* values of the question prop

Null == [null |-> TRUE]     \* the value null of aiResult

VARIABLES
    question,        \* props.question.question
    isRecording,     \* useSpeechToText().isRecording
    interimResult,   \* useSpeechToText().interimResult ("" when none)
    results,         \* useSpeechToText().results
    userAnswer,      \* useState("")
    isAiGenerating,  \* useState(false)
    aiResult,        \* useState<AIResponse | null>(null)
    open,            \* useState(false)
    loading,         \* useState(false)
    evals,           \* generateResult calls awaiting chatSession.sendMessage;
                     \* latest: no capture has started since the call
    saves,           \* saveUserAnswer calls awaiting getDocs / addDoc;
                     \* second: called with no call in flight and one
                     \* document of its key in the store,
                     \* evaluated: the answer its aiResult was given for
    timers,          \* setTimeout callbacks of recordNewAnswer not yet fired
    store,           \* the userAnswers collection
    lastOp,          \* the handler or continuation that ran last
    toasts,          \* the notifications the last step emitted
    recStart,        \* how many results there were when capture last started
    doneSave,        \* the saveUserAnswer call that finished last
    aiOf,            \* the generateResult call that aiResult came from
    resetAt,         \* how many results there were at the last
                     \* recordNewAnswer
    parseArg,        \* the responseText handed to cleanJsonResponse
    parseRet         \* what cleanJsonResponse returned or threw

vars == <<question, isRecording, interimResult, results, userAnswer,
          isAiGenerating, aiResult, open, loading, evals, saves, timers,
          store, lastOp, toasts, recStart, doneSave, aiOf, resetAt,
          parseArg, parseRet>>

\* the variables of the component, and those of the parser on its own
parserVars == <<parseArg, parseRet>>

\* ---------------------------------------------------- TranscriptAggregator
RECURSIVE Join(_)
\* Array.prototype.join(" ") over a sequence of texts
Join(texts) ==
    IF texts = <<>> THEN <<>>
    ELSE IF Len(texts) = 1 THEN texts[1]
    ELSE texts[1] \o <<" ">> \o Join(Tail(texts))

\* mutant of FilterResultTypes: the filter is missing
FilterResultTypes_KeepsAll(rs) == rs

\* results.filter(r => typeof r !== "string")
FilterResultTypes(rs) == SelectSeq(rs, LAMBDA r : ~r.isString)

\* .map(r => r.transcript)
MapTranscripts(rs) == [i \in 1..Len(rs) |-> rs[i].transcript]

\* the value the effect on [results] hands to setUserAnswer
CombineTranscripts(rs) == Join(MapTranscripts(FilterResultTypes(rs)))

\* the effect on [results]: userAnswer after results became rs
EffectUserAnswer(rs, ua) == IF Len(rs) > 0 THEN CombineTranscripts(rs) ELSE ua

\* ---------------------------------------------------------- ResponseParser
\* A response text is a sequence of tokens: "{" "}" braces, "fence" three backticks,
\* "tick" one backtick, "json" the word json, "nl" white space, "txt" prose,
\* "num" a bare number, "k" a key whose value is the object that follows,
\* and the members "r7" ("ratings":7), "r11" ("ratings":11),
\* "rs" ("ratings":"high"), "fs" ("feedback":"Good").
Members == {"r7", "r11", "rs", "fs"}

Undefined == [type |-> "undefined", num |-> 0, str |-> ""]
NumberValue(n) == [type |-> "number", num |-> n, str |-> ""]
StringValue(t) == [type |-> "string", num |-> 0, str |-> t]

RECURSIVE TrimStart(_)
TrimStart(s) == IF s # <<>> /\ Head(s) = "nl" THEN TrimStart(Tail(s)) ELSE s

RECURSIVE TrimEnd(_)
TrimEnd(s) ==
    IF s # <<>> /\ s[Len(s)] = "nl" THEN TrimEnd(SubSeq(s, 1, Len(s) - 1)) ELSE s

\* String.prototype.trim
Trim(s) == TrimEnd(TrimStart(s))

\* nesting depth after the first i tokens of s
Depth(s, i) ==
    Cardinality({j \in 1..i : s[j] = "{"}) - Cardinality({j \in 1..i : s[j] = "}"})

\* s is one JSON object: balanced braces closing at the last token, inner
\* objects only as the value of a key, nothing but members and white space
IsJsonObject(s) ==
    /\ Len(s) >= 2
    /\ s[1] = "{"
    /\ s[Len(s)] = "}"
    /\ \A i \in 1..(Len(s) - 1) : Depth(s, i) > 0
    /\ Depth(s, Len(s)) = 0
    /\ \A i \in 2..(Len(s) - 1) :
          /\ s[i] \in Members \cup {"{", "}", "k", "nl"}
          /\ (s[i] = "{") => (s[i - 1] = "k")
          /\ (s[i] = "k") => (s[i + 1] = "{")

\* the value of the last top-level member of s among ms
MemberValue(s, ms) ==
    LET at == {i \in 1..Len(s) : s[i] \in ms /\ Depth(s, i) = 1}
    IN  IF at = {} THEN Undefined
        ELSE LET m == s[CHOOSE i \in at : \A j \in at : j <= i]
             IN  CASE m = "r7" -> NumberValue(7)
                   [] m = "r11" -> NumberValue(11)
                   [] m = "rs" -> StringValue("high")
                   [] m = "fs" -> StringValue("Good")

\* JSON.parse: ok with the value's ratings and feedback properties, or a
\* SyntaxError
JsonParse(text) ==
    LET s == Trim(text)
    IN  IF s = <<"num">>
        THEN [ok |-> TRUE, ratings |-> Undefined, feedback |-> Undefined,
              message |-> ""]
        ELSE IF IsJsonObject(s)
        THEN [ok |-> TRUE, ratings |-> MemberValue(s, {"r7", "r11", "rs"}),
              feedback |-> MemberValue(s, {"fs"}), message |-> ""]
        ELSE [ok |-> FALSE, ratings |-> Undefined, feedback |-> Undefined,
              message |-> "SyntaxError"]

RECURSIVE StripFences(_)
\* responseText.replace(...): drops every fence followed by json, every
\* other fence and every backtick
StripFences(s) ==
    IF s = <<>> THEN <<>>
    ELSE IF Len(s) >= 2 /\ s[1] = "fence" /\ s[2] = "json"
         THEN StripFences(SubSeq(s, 3, Len(s)))
    ELSE IF s[1] \in {"fence", "tick"} THEN StripFences(Tail(s))
    ELSE <<s[1]>> \o StripFences(Tail(s))

\* responseText.match(/\{[\s\S]*?\}/): the first "{" up to the first "}"
\* after it, or <<>> for no match
JsonMatch(s) ==
    LET opens == {i \in 1..Len(s) : s[i] = "{"}
    IN  IF opens = {} THEN <<>>
        ELSE LET i == CHOOSE x \in opens : \A y \in opens : x <= y
                 closes == {j \in (i + 1)..Len(s) : s[j] = "}"}
             IN  IF closes = {} THEN <<>>
                 ELSE SubSeq(s, i, CHOOSE x \in closes : \A y \in closes : x <= y)

\* the third tier: extract the object with the pattern and parse it
ExtractionParse(responseText) ==
    LET jsonMatch == JsonMatch(responseText)
    IN  IF jsonMatch # <<>> THEN JsonParse(jsonMatch)
        ELSE [ok |-> FALSE, ratings |-> Undefined, feedback |-> Undefined,
              message |-> "Could not extract valid JSON"]

\* new Error(message): the properties the constructor sets
Error(message) == [name |-> "Error", message |-> message]

\* the error field of a call that returned
NoError == [name |-> "", message |-> <<>>]

\* mutant of CleanJsonResponse: the fence-stripped parse is missing
CleanJsonResponse_SkipsStripped(responseText) ==
    LET first == JsonParse(responseText)
        final == ExtractionParse(responseText)
    IN  IF first.ok THEN [ok |-> TRUE, tier |-> 1, value |-> first,
                          error |-> NoError]
        ELSE IF final.ok THEN [ok |-> TRUE, tier |-> 3, value |-> final,
                               error |-> NoError]
        ELSE [ok |-> FALSE, tier |-> 3, value |-> final,
              error |-> Error(<<"Invalid JSON format: ", final.message>>)]

\* cleanJsonResponse: the parsed value and the tier that produced it, or the
\* error thrown after the third tier
CleanJsonResponse(responseText) ==
    LET first == JsonParse(responseText)
        second == JsonParse(Trim(StripFences(responseText)))
        final == ExtractionParse(responseText)
    IN  IF first.ok THEN [ok |-> TRUE, tier |-> 1, value |-> first,
                          error |-> NoError]
        ELSE IF second.ok THEN [ok |-> TRUE, tier |-> 2, value |-> second,
                                error |-> NoError]
        ELSE IF final.ok THEN [ok |-> TRUE, tier |-> 3, value |-> final,
                               error |-> NoError]
        ELSE [ok |-> FALSE, tier |-> 3, value |-> final,
              error |-> Error(<<"Invalid JSON format: ", final.message>>)]

\* -------------------------------------------------------- EvaluationClient
\* what chatSession.sendMessage may come back with: a rejection, or a text
Replies ==
    { [failed |-> TRUE, text |-> <<>>] } \cup
    { [failed |-> FALSE, text |-> t] : t \in
        { <<"{", "r7", "fs", "}">>,
          <<"fence", "json", "nl", "{", "r7", "fs", "}", "nl", "fence">>,
          <<"txt", "{", "r11", "fs", "}", "txt">>,
          <<"txt", "{", "r7", "fs", "k", "{", "}", "}">>,
          <<"txt">>,
          <<"num">>,
          <<"{", "rs", "fs", "}">>,
          <<"{", "r7", "}">> } }

\* typeof parsedResult?.ratings !== 'number' ||
\* typeof parsedResult?.feedback !== 'string'
InvalidStructure(parsedResult) ==
    parsedResult.ratings.type # "number" \/ parsedResult.feedback.type # "string"

\* generateResult from the reply on: the AIResponse returned, or the error
\* thrown
GenerateResult(reply) ==
    IF reply.failed
    THEN [ok |-> FALSE, value |-> Null, error |-> Error(<<"sendMessage">>)]
    ELSE LET parsed == CleanJsonResponse(reply.text)
         IN  IF ~parsed.ok
             THEN [ok |-> FALSE, value |-> Null, error |-> parsed.error]
             ELSE IF InvalidStructure(parsed.value)
             THEN [ok |-> FALSE, value |-> Null,
                   error |-> Error(<<"Invalid response structure">>)]
             ELSE [ok |-> TRUE,
                   value |-> [ratings |-> parsed.value.ratings.num,
                              feedback |-> parsed.value.feedback.str],
                   error |-> NoError]

\* every way generateResult can end
Outcomes == {GenerateResult(reply) : reply \in Replies}

\* ------------------------------------------------------------ notifications
Toast(kind, title, description) ==
    [kind |-> kind, title |-> title, description |-> description]

ToastRecordingStarted ==
    Toast("info", "Recording started", "Speak clearly into your microphone")
ToastFailedToGenerate ==
    Toast("error", "Error", "Failed to generate feedback. Please try again.")
ToastGenerationError ==
    Toast("error", "Error", "An error occurred while generating feedback.")
ToastRecordingNew ==
    Toast("info", "Recording new answer", "Previous answer has been cleared")
ToastNoFeedback == Toast("error", "Error", "No feedback available to save")
ToastAlreadyAnswered ==
    Toast("info", "Already Answered", "You have already answered this question")
ToastSaved ==
    Toast("success", "Saved", "Your answer has been saved successfully")
ToastSaveError ==
    Toast("error", "Error", "An error occurred while saving your answer.")

\* ------------------------------------------------------------------- state
UserId == "user"            \* useAuth().userId
InterviewId == "interview"  \* useParams().interviewId

NoSave == [second |-> FALSE, question |-> ""]

\* aiOf while aiResult is null
NoEval == [userAns |-> <<>>]

\* parseRet before cleanJsonResponse has run
NotParsed == [ok |-> FALSE, tier |-> 0, value |-> Null, error |-> NoError]

\* the calls in flight once capture has started again
Superseded(calls) ==
    [i \in 1..Len(calls) |-> [calls[i] EXCEPT !.latest = FALSE]]

\* doc carries the key (userId, question, interviewId) of currentQuestion
SameKey(doc, currentQuestion) ==
    /\ doc.userId = UserId
    /\ doc.question = currentQuestion
    /\ doc.mockIdRef = InterviewId

\* the generateResult calls, saveUserAnswer calls and timers in flight
Pending == Len(evals) + Len(saves) + timers

RemoveAt(s, i) == SubSeq(s, 1, i - 1) \o SubSeq(s, i + 1, Len(s))

Init ==
    /\ question \in Questions
    /\ isRecording = FALSE
    /\ interimResult = ""
    /\ results = <<>>
    /\ userAnswer = <<>>
    /\ isAiGenerating = FALSE
    /\ aiResult = Null
    /\ open = FALSE
    /\ loading = FALSE
    /\ evals = <<>>
    /\ saves = <<>>
    /\ timers = 0
    /\ store = <<>>
    /\ lastOp = "init"
    /\ toasts = <<>>
    /\ recStart = 0
    /\ doneSave = NoSave
    /\ aiOf = NoEval
    /\ resetAt = 0
    /\ parseArg = <<>>
    /\ parseRet = NotParsed

\* ------------------------------------------------------------ speech engine
\* the engine recognises a word of the utterance in progress
SpeechInterim ==
    /\ isRecording
    /\ interimResult = ""
    /\ Len(results) < MaxResults
    /\ interimResult' = Words[Len(results) + 1]
    /\ lastOp' = "interim"
    /\ toasts' = <<>>
    /\ UNCHANGED <<question, isRecording, results, userAnswer, isAiGenerating,
                   aiResult, open, loading, evals, saves, timers, store,
                   recStart, doneSave,
                   aiOf, resetAt, parserVars>>

\* the engine finalises the utterance in progress, also the one that a stop
\* cut short; the effect on [results] then recomputes userAnswer
SpeechResult ==
    /\ interimResult # ""
    /\ results' = Append(results,
                         [isString |-> FALSE, transcript |-> <<interimResult>>])
    /\ interimResult' = ""
    /\ userAnswer' = EffectUserAnswer(results', userAnswer)
    /\ lastOp' = "result"
    /\ toasts' = <<>>
    /\ UNCHANGED <<question, isRecording, isAiGenerating, aiResult, open,
                   loading, evals, saves, timers, store, recStart,
                   doneSave,
                   aiOf, resetAt, parserVars>>

\* ------------------------------------------------- SpeechCaptureController
\* recordUserAnswer while recording: stop, then generateResult up to its
\* await of chatSession.sendMessage
StopAndEvaluate ==
    /\ isRecording
    /\ Pending < MaxPending
    /\ isRecording' = FALSE
    /\ isAiGenerating' = TRUE
    /\ evals' = Append(evals, [userAns |-> userAnswer, latest |-> TRUE])
    /\ toasts' = <<>>
    /\ UNCHANGED <<userAnswer, aiResult, recStart, aiOf>>

\* recordUserAnswer while not recording
StartRecording ==
    /\ ~isRecording
    /\ isRecording' = TRUE
    /\ toasts' = <<ToastRecordingStarted>>
    /\ recStart' = Len(results)
    /\ evals' = Superseded(evals)
    /\ UNCHANGED <<userAnswer, aiResult, isAiGenerating, aiOf>>

\* the Start/Stop Recording button
RecordUserAnswer ==
    /\ \/ StopAndEvaluate
       \/ StartRecording
    /\ lastOp' = "recordUserAnswer"
    /\ UNCHANGED <<question, interimResult, results, open, loading, saves,
                   timers, store, doneSave,
                   resetAt, parserVars>>

\* chatSession.sendMessage settled and generateResult returned: the finally
\* block, then setAiResult in recordUserAnswer
EvaluationSucceeded ==
    \E i \in 1..Len(evals) : \E outcome \in Outcomes :
        /\ outcome.ok
        /\ aiResult' = outcome.value
        /\ aiOf' = [userAns |-> evals[i].userAns]
        /\ isAiGenerating' = FALSE
        /\ evals' = RemoveAt(evals, i)
        /\ lastOp' = "evaluationSucceeded"
        /\ toasts' = <<>>
        /\ UNCHANGED <<question, isRecording, interimResult, results,
                       userAnswer, open, loading, saves, timers, store,
                       recStart, doneSave,
                       resetAt, parserVars>>

\* mutant of EvaluationFailed: generateResult swallows the error and
\* recordUserAnswer stores what it returned
EvaluationFailed_ClearsResult ==
    \E i \in 1..Len(evals) : \E outcome \in Outcomes :
        /\ ~outcome.ok
        /\ aiResult' = Null
        /\ aiOf' = NoEval
        /\ isAiGenerating' = FALSE
        /\ evals' = RemoveAt(evals, i)
        /\ lastOp' = "evaluationFailed"
        /\ toasts' = <<ToastGenerationError>>
        /\ UNCHANGED <<question, isRecording, interimResult, results,
                       userAnswer, open, loading, saves, timers, store,
                       recStart, doneSave,
                       resetAt, parserVars>>

\* mutant of EvaluationFailed: generateResult has no finally block
EvaluationFailed_NoFinally ==
    \E i \in 1..Len(evals) : \E outcome \in Outcomes :
        /\ ~outcome.ok
        /\ isAiGenerating' = isAiGenerating
        /\ evals' = RemoveAt(evals, i)
        /\ lastOp' = "evaluationFailed"
        /\ toasts' = <<ToastGenerationError, ToastFailedToGenerate>>
        /\ UNCHANGED <<question, isRecording, interimResult, results,
                       userAnswer, aiResult, open, loading, saves, timers,
                       store, recStart, doneSave,
                       aiOf, resetAt, parserVars>>

\* chatSession.sendMessage settled and generateResult threw: its catch and
\* finally blocks, then the catch block of recordUserAnswer
EvaluationFailed ==
    \E i \in 1..Len(evals) : \E outcome \in Outcomes :
        /\ ~outcome.ok
        /\ isAiGenerating' = FALSE
        /\ evals' = RemoveAt(evals, i)
        /\ lastOp' = "evaluationFailed"
        /\ toasts' = <<ToastGenerationError, ToastFailedToGenerate>>
        /\ UNCHANGED <<question, isRecording, interimResult, results,
                       userAnswer, aiResult, open, loading, saves, timers,
                       store, recStart, doneSave,
                       aiOf, resetAt, parserVars>>

\* mutant of RecordNewAnswer: setAiResult(null) is missing
RecordNewAnswer_KeepsResult ==
    /\ ~isAiGenerating
    /\ Pending < MaxPending
    /\ isRecording' = FALSE
    /\ userAnswer' = <<>>
    /\ resetAt' = Len(results)
    /\ timers' = timers + 1
    /\ lastOp' = "recordNewAnswer"
    /\ toasts' = <<>>
    /\ UNCHANGED <<question, interimResult, results, isAiGenerating, aiResult,
                   open, loading, evals, saves, store, recStart, doneSave,
                   aiOf, parserVars>>

\* the Record New Answer button, disabled while isAiGenerating
RecordNewAnswer ==
    /\ ~isAiGenerating
    /\ Pending < MaxPending
    /\ isRecording' = FALSE
    /\ userAnswer' = <<>>
    /\ aiResult' = Null
    /\ aiOf' = NoEval
    /\ resetAt' = Len(results)
    /\ timers' = timers + 1
    /\ lastOp' = "recordNewAnswer"
    /\ toasts' = <<>>
    /\ UNCHANGED <<question, interimResult, results, isAiGenerating, open,
                   loading, evals, saves, store, recStart, doneSave,
                   parserVars>>

\* the callback recordNewAnswer handed to setTimeout
RestartTimer ==
    /\ timers > 0
    /\ timers' = timers - 1
    /\ isRecording' = TRUE
    /\ recStart' = IF isRecording THEN recStart ELSE Len(results)
    /\ evals' = IF isRecording THEN evals ELSE Superseded(evals)
    /\ lastOp' = "restartTimer"
    /\ toasts' = <<ToastRecordingNew>>
    /\ UNCHANGED <<question, interimResult, results, userAnswer,
                   isAiGenerating, aiResult, open, loading, saves, store,
                   doneSave,
                   aiOf, resetAt, parserVars>>

\* -------------------------------------------------------------- AnswerStore
\* the document addDoc writes, from the values the handler closed over
AnswerDoc(save) ==
    [mockIdRef |-> InterviewId, question |-> save.question,
     user_ans |-> save.userAnswer, feedback |-> save.aiResult.feedback,
     rating |-> save.aiResult.ratings, userId |-> UserId]

\* the where clauses of userAnswerQuery
QueryMatches(doc, currentQuestion) ==
    /\ doc.userId = UserId
    /\ doc.question = currentQuestion
    /\ doc.mockIdRef = InterviewId

\* mutant of QuerySnapEmpty: the query reads a collection nothing is written to
QuerySnapEmpty_WrongCollection(docs, currentQuestion) == TRUE

\* querySnap.empty
QuerySnapEmpty(docs, currentQuestion) ==
    \A i \in 1..Len(docs) : ~QueryMatches(docs[i], currentQuestion)

\* mutant of NoFeedback: the guard is missing
NoFeedback_Never(result) == FALSE

\* !aiResult
NoFeedback(result) == result = Null

\* the Save Result button, disabled without a result or while generating
OpenSaveModal ==
    /\ aiResult # Null
    /\ ~isAiGenerating
    /\ ~open
    /\ open' = TRUE
    /\ lastOp' = "openSaveModal"
    /\ toasts' = <<>>
    /\ UNCHANGED <<question, isRecording, interimResult, results, userAnswer,
                   isAiGenerating, aiResult, loading, evals, saves, timers,
                   store, recStart, doneSave,
                   aiOf, resetAt, parserVars>>

\* onClose of the save modal
CloseSaveModal ==
    /\ open
    /\ open' = FALSE
    /\ lastOp' = "closeSaveModal"
    /\ toasts' = <<>>
    /\ UNCHANGED <<question, isRecording, interimResult, results, userAnswer,
                   isAiGenerating, aiResult, loading, evals, saves, timers,
                   store, recStart, doneSave,
                   aiOf, resetAt, parserVars>>

\* saveUserAnswer without a result: the early return
SaveRejected ==
    /\ NoFeedback(aiResult)
    /\ toasts' = <<ToastNoFeedback>>
    /\ UNCHANGED <<loading, saves>>

\* saveUserAnswer with a result, up to its await of getDocs
SaveQueryIssued ==
    /\ ~NoFeedback(aiResult)
    /\ Pending < MaxPending
    /\ loading' = TRUE
    /\ saves' = Append(saves, [pc |-> "getDocs", question |-> question,
                               userAnswer |-> userAnswer, aiResult |-> aiResult,
                               isRecording |-> isRecording,
                               evaluated |-> aiOf.userAns,
                               second |-> saves = <<>> /\
                                   Len(SelectSeq(store, LAMBDA d :
                                       SameKey(d, question))) = 1])
    /\ toasts' = <<>>

\* onConfirm of the save modal
SaveUserAnswer ==
    /\ open
    /\ \/ SaveRejected
       \/ SaveQueryIssued
    /\ lastOp' = "saveUserAnswer"
    /\ UNCHANGED <<question, isRecording, interimResult, results, userAnswer,
                   isAiGenerating, aiResult, open, evals, timers, store,
                   recStart, doneSave,
                   aiOf, resetAt, parserVars>>

\* how many documents of docs carry the key of currentQuestion
KeyCount(docs, currentQuestion) ==
    Len(SelectSeq(docs, LAMBDA d : SameKey(d, currentQuestion)))

\* the finally block of saveUserAnswer, and the end of call i
SaveFinally(i) ==
    /\ loading' = FALSE
    /\ open' = FALSE
    /\ saves' = RemoveAt(saves, i)
    /\ doneSave' = [second |-> saves[i].second, question |-> saves[i].question]

\* getDocs resolved with a match: the Already Answered branch
AlreadyAnswered ==
    \E i \in 1..Len(saves) :
        /\ saves[i].pc = "getDocs"
        /\ ~QuerySnapEmpty(store, saves[i].question)
        /\ SaveFinally(i)
        /\ lastOp' = "alreadyAnswered"
        /\ toasts' = <<ToastAlreadyAnswered>>
        /\ UNCHANGED <<question, isRecording, interimResult, results,
                       userAnswer, isAiGenerating, aiResult, evals, timers,
                       store, recStart,
                       aiOf, resetAt, parserVars>>

\* getDocs resolved with no match: on to the await of addDoc
AddDocIssued ==
    \E i \in 1..Len(saves) :
        /\ saves[i].pc = "getDocs"
        /\ QuerySnapEmpty(store, saves[i].question)
        /\ saves' = [saves EXCEPT ![i].pc = "addDoc"]
        /\ lastOp' = "addDocIssued"
        /\ toasts' = <<>>
        /\ UNCHANGED <<question, isRecording, interimResult, results,
                       userAnswer, isAiGenerating, aiResult, open, loading,
                       evals, timers, store, recStart, doneSave,
                       aiOf, resetAt, parserVars>>

\* mutant of Saved: the insert is a transaction that checks the key again
Saved_ChecksAgain ==
    \E i \in 1..Len(saves) :
        /\ saves[i].pc = "addDoc"
        /\ store' = IF QuerySnapEmpty(store, saves[i].question)
                    THEN Append(store, AnswerDoc(saves[i]))
                    ELSE store
        /\ userAnswer' = <<>>
        /\ aiResult' = Null
        /\ aiOf' = NoEval
        /\ isRecording' = IF saves[i].isRecording THEN FALSE ELSE isRecording
        /\ SaveFinally(i)
        /\ lastOp' = "saved"
        /\ toasts' = <<ToastSaved>>
        /\ UNCHANGED <<question, interimResult, results, isAiGenerating,
                       evals, timers, recStart,
                       resetAt, parserVars>>

\* addDoc resolved: the document is in the collection, the state is reset
Saved ==
    \E i \in 1..Len(saves) :
        /\ saves[i].pc = "addDoc"
        /\ store' = Append(store, AnswerDoc(saves[i]))
        /\ userAnswer' = <<>>
        /\ aiResult' = Null
        /\ aiOf' = NoEval
        /\ isRecording' = IF saves[i].isRecording THEN FALSE ELSE isRecording
        /\ SaveFinally(i)
        /\ lastOp' = "saved"
        /\ toasts' = <<ToastSaved>>
        /\ UNCHANGED <<question, interimResult, results, isAiGenerating,
                       evals, timers, recStart,
                       resetAt, parserVars>>

\* mutant of SaveFailed: the catch block resets the state as a success does
SaveFailed_Resets ==
    \E i \in 1..Len(saves) :
        /\ SaveFinally(i)
        /\ userAnswer' = <<>>
        /\ aiResult' = Null
        /\ aiOf' = NoEval
        /\ lastOp' = "saveFailed"
        /\ toasts' = <<ToastSaveError>>
        /\ UNCHANGED <<question, isRecording, interimResult, results,
                       isAiGenerating, evals, timers, store, recStart,
                       resetAt, parserVars>>

\* getDocs or addDoc rejected: the catch block
SaveFailed ==
    \E i \in 1..Len(saves) :
        /\ SaveFinally(i)
        /\ lastOp' = "saveFailed"
        /\ toasts' = <<ToastSaveError>>
        /\ UNCHANGED <<question, isRecording, interimResult, results,
                       userAnswer, isAiGenerating, aiResult, evals, timers,
                       store, recStart,
                       aiOf, resetAt, parserVars>>

Next ==
    \/ SpeechInterim
    \/ SpeechResult
    \/ RecordUserAnswer
    \/ EvaluationSucceeded
    \/ EvaluationFailed
    \/ RecordNewAnswer
    \/ RestartTimer
    \/ OpenSaveModal
    \/ CloseSaveModal
    \/ SaveUserAnswer
    \/ AlreadyAnswered
    \/ AddDocIssued
    \/ Saved
    \/ SaveFailed

Spec == Init /\ [][Next]_vars

\* the AI service settles every request: chatSession.sendMessage resolves or
\* rejects in the end
LiveSpec == Spec /\ WF_vars(EvaluationSucceeded \/ EvaluationFailed)

\* ----------------------------------------- the effect on [results], alone
MaxSegments == 3            \* entries of results handed to the effect

\* entries of results: ResultType objects, one of them with an empty and one
\* with a two-word transcript, and a string (the type the filter drops)
AggEntries ==
    { [isString |-> FALSE, transcript |-> <<"a">>],
      [isString |-> FALSE, transcript |-> <<"b", " ", "c">>],
      [isString |-> FALSE, transcript |-> <<>>],
      [isString |-> TRUE, transcript |-> <<"x">>] }

AggInputs == UNION { [1..n -> AggEntries] : n \in 1..MaxSegments }

\* the state after construction, but for results and what the parser holds
Mounted ==
    /\ question \in Questions
    /\ isRecording = FALSE
    /\ interimResult = ""
    /\ userAnswer = <<>>
    /\ isAiGenerating = FALSE
    /\ aiResult = Null
    /\ open = FALSE
    /\ loading = FALSE
    /\ evals = <<>>
    /\ saves = <<>>
    /\ timers = 0
    /\ store = <<>>
    /\ lastOp = "init"
    /\ toasts = <<>>
    /\ recStart = 0
    /\ doneSave = NoSave
    /\ aiOf = NoEval
    /\ resetAt = 0

AggInit ==
    /\ Mounted
    /\ results \in AggInputs
    /\ parseArg = <<>>
    /\ parseRet = NotParsed

\* the effect on [results] runs
ResultsEffect ==
    /\ userAnswer' = EffectUserAnswer(results, userAnswer)
    /\ lastOp' = "effect"
    /\ UNCHANGED <<question, isRecording, interimResult, results,
                   isAiGenerating, aiResult, open, loading, evals, saves,
                   timers, store, toasts, recStart, doneSave, aiOf, resetAt,
                   parserVars>>

AggNext == ResultsEffect

AggSpec == AggInit /\ [][AggNext]_vars

\* -------------------------------------------------- cleanJsonResponse, alone
\* response texts: what may precede the body, the body, what may follow it
Prefixes ==
    { <<>>, <<"txt">>, <<"nl">>, <<"tick">>, <<"fence", "nl">>,
      <<"fence", "json", "nl">> }

Bodies ==
    { <<"{", "r7", "fs", "}">>,
      <<"{", "rs", "fs", "}">>,
      <<"{", "r7", "fs", "k", "{", "}", "}">>,
      <<"{", "r7">>,
      <<"{", "}">>,
      <<"}", "{">>,
      <<"txt">>,
      <<"num">>,
      <<>> }

Suffixes ==
    { <<>>, <<"txt">>, <<"nl">>, <<"tick">>, <<"nl", "fence">>,
      <<"{", "r11", "fs", "}">> }

ParserInputs ==
    {p \o b \o x : p \in Prefixes, b \in Bodies, x \in Suffixes}

ParseInit ==
    /\ Mounted
    /\ results = <<>>
    /\ parseArg \in ParserInputs
    /\ parseRet = NotParsed

\* generateResult hands the response text to cleanJsonResponse
ParseResponse ==
    /\ lastOp = "init"
    /\ parseRet' = CleanJsonResponse(parseArg)
    /\ lastOp' = "cleanJsonResponse"
    /\ UNCHANGED <<question, isRecording, interimResult, results, userAnswer,
                   isAiGenerating, aiResult, open, loading, evals, saves,
                   timers, store, toasts, recStart, doneSave, aiOf, resetAt,
                   parseArg>>

ParseNext == ParseResponse

ParseSpec == ParseInit /\ [][ParseNext]_vars

\* ==================================================================== claims

\* C1: a step of saveUserAnswer taken while aiResult is null emits the error
\* notification "No feedback available to save" and issues no store request:
\* no call is left awaiting getDocs or addDoc, and the store is as it was.
C1_SaveWithoutResultRejected ==
    [][(lastOp' = "saveUserAnswer" /\ aiResult = Null) =>
          /\ toasts' = <<ToastNoFeedback>>
          /\ saves' = saves
          /\ store' = store]_vars

C1_Witness ==
    /\ lastOp = "saveUserAnswer"
    /\ aiResult = Null
    /\ toasts = <<ToastNoFeedback>>

\* C2: a saveUserAnswer call made after an earlier call for the same key has
\* finished and left its document (no call in flight, one document of the key)
\* never gets to addDoc; when the store answers its query it ends with the
\* Already Answered notification, and the store holds exactly one document of
\* the key throughout.
C2_SecondSaveAlreadyAnswered ==
    /\ \A i \in 1..Len(saves) :
          saves[i].second =>
              /\ saves[i].pc = "getDocs"
              /\ KeyCount(store, saves[i].question) = 1
    /\ (lastOp \in {"alreadyAnswered", "saved"} /\ doneSave.second) =>
          /\ lastOp = "alreadyAnswered"
          /\ toasts = <<ToastAlreadyAnswered>>
          /\ KeyCount(store, doneSave.question) = 1

C2_Witness ==
    /\ lastOp = "alreadyAnswered"
    /\ doneSave.second
    /\ KeyCount(store, doneSave.question) = 1

\* C3: aiResult is non-null only while capture is not recording.
C3_ResultOnlyWhenStopped == (aiResult # Null) => ~isRecording

\* C4: every step that starts capture leaves userAnswer empty and aiResult
\* null.
C4_StartClearsAnswerAndResult ==
    [][(~isRecording /\ isRecording') =>
          (userAnswer' = <<>> /\ aiResult' = Null)]_vars

\* C5: in the state recordNewAnswer leaves, before the restart timer or
\* anything else has run, userAnswer is empty and aiResult is null.
C5_ResetClearsImmediately ==
    (lastOp = "recordNewAnswer") => (userAnswer = <<>> /\ aiResult = Null)

C5_Witness ==
    /\ lastOp = "recordNewAnswer"
    /\ results # <<>>
    /\ timers > 0
    /\ ~isRecording

\* C6: as long as no capture has started since, the user answer in the prompt
\* of the evaluation call equals the aggregate of all final segments delivered
\* since that recording started, those finalised after the stop included.
C6_PromptIsFinalAggregate ==
    \A i \in 1..Len(evals) :
        evals[i].latest =>
            evals[i].userAns =
                CombineTranscripts(SubSeq(results, recStart + 1, Len(results)))

\* C7: while isAiGenerating is true, a step of recordUserAnswer or of
\* recordNewAnswer neither starts nor stops capture and changes neither
\* userAnswer nor aiResult.
C7_NoToggleOrResetWhileEvaluating ==
    [][(isAiGenerating /\ lastOp' \in {"recordUserAnswer", "recordNewAnswer"}) =>
          /\ isRecording' = isRecording
          /\ userAnswer' = userAnswer
          /\ aiResult' = aiResult]_vars

\* C8: the step in which getDocs or addDoc fails leaves aiResult and
\* userAnswer as they were, so the result is still there for another save.
C8_SaveFailureKeepsResult ==
    [][(lastOp' = "saveFailed") =>
          (aiResult' = aiResult /\ userAnswer' = userAnswer)]_vars

C8_Witness ==
    /\ lastOp = "saveFailed"
    /\ aiResult # Null
    /\ userAnswer # <<>>

\* C9: the step in which generateResult fails leaves aiResult as it was and
\* emits the error notification of generateResult and, the error having been
\* rethrown, the error notification of the catch block of recordUserAnswer.
C9_EvaluationFailureKeepsResult ==
    [][(lastOp' = "evaluationFailed") =>
          /\ aiResult' = aiResult
          /\ \E k \in 1..Len(toasts') : toasts'[k].kind = "error"
          /\ toasts'[Len(toasts')] = ToastFailedToGenerate]_vars

C9_Witness ==
    /\ lastOp = "evaluationFailed"
    /\ aiResult # Null
    /\ toasts = <<ToastGenerationError, ToastFailedToGenerate>>

\* C10: when the evaluation of a stopped recording ends, capture is not
\* recording and nothing is generating; aiResult is non-null after a success
\* and null after a failure.
C10_StopEndsStopped ==
    /\ (lastOp = "evaluationSucceeded") =>
          (aiResult # Null /\ ~isRecording /\ ~isAiGenerating)
    /\ (lastOp = "evaluationFailed") =>
          (aiResult = Null /\ ~isRecording /\ ~isAiGenerating)


\* C11: over every interleaving of the Start/Stop button, the Record New
\* Answer button and the delayed restart, startSpeechToText is never called
\* while capture is recording, and the delayed restart never starts capture
\* while an evaluation is in progress.
C11_StartOnlyWhenIdle ==
    [][/\ (lastOp' = "restartTimer") => (~isRecording /\ ~isAiGenerating)
       /\ (lastOp' = "recordUserAnswer" /\ isRecording') => ~isRecording]_vars

\* C12: every AIResponse held in aiResult and every rating written to the
\* userAnswers collection is an integer from 1 to 10, whatever the AI
\* service replied.
C12_RatingInRange ==
    /\ aiResult # Null => aiResult.ratings \in 1..10
    /\ \A k \in 1..Len(store) : store[k].rating \in 1..10

\* the entries of rs before the k-th that are not strings
FinalsBefore(rs, k) == {i \in 1..(k - 1) : ~rs[i].isString}

RECURSIVE TextLength(_, _)
\* the length of the transcripts of the entries at the indices in S, with one
\* separator after each
TextLength(rs, S) ==
    IF S = {} THEN 0
    ELSE LET i == CHOOSE j \in S : TRUE
         IN  Len(rs[i].transcript) + 1 + TextLength(rs, S \ {i})

\* text is made of the transcripts of the non-string entries of rs, each at
\* the place its predecessors leave it, with one space between neighbours
\* and nothing else
JoinedFinals(rs, text) ==
    LET finals == FinalsBefore(rs, Len(rs) + 1)
    IN  /\ Len(text) = IF finals = {} THEN 0 ELSE TextLength(rs, finals) - 1
        /\ \A k \in finals :
              LET at == TextLength(rs, FinalsBefore(rs, k))
              IN  /\ SubSeq(text, at + 1, at + Len(rs[k].transcript))
                        = rs[k].transcript
                  /\ at > 0 => text[at] = " "

\* C13: for every non-empty sequence of results, the userAnswer the effect
\* sets is the transcripts of the final (non-string) entries joined by single
\* spaces in arrival order, the other entries left out wherever they occur;
\* running the effect again on the same sequence leaves the same text.
C13_AggregateIsJoinOfFinals ==
    lastOp = "effect" => JoinedFinals(results, userAnswer)

C13_Witness ==
    /\ lastOp = "effect"
    /\ Len(results) = 3
    /\ ~results[1].isString /\ results[2].isString /\ ~results[3].isString
    /\ userAnswer = <<"a", " ", "b", " ", "c">>

\* C14: cleanJsonResponse tries the direct parse, then the parse of the
\* fence-stripped text, then the parse of the extracted object, each only
\* when the one before raised; it returns what the first tier that succeeds
\* returns and raises only when all three raise.
C14_FirstSuccessfulTier ==
    lastOp = "cleanJsonResponse" =>
        LET direct == JsonParse(parseArg)
            stripped == JsonParse(Trim(StripFences(parseArg)))
            extracted == ExtractionParse(parseArg)
        IN  /\ parseRet.ok <=> (direct.ok \/ stripped.ok \/ extracted.ok)
            /\ direct.ok => (parseRet.tier = 1 /\ parseRet.value = direct)
            /\ (~direct.ok /\ stripped.ok)
                  => (parseRet.tier = 2 /\ parseRet.value = stripped)
            /\ (~direct.ok /\ ~stripped.ok /\ extracted.ok)
                  => (parseRet.tier = 3 /\ parseRet.value = extracted)
            /\ ~parseRet.ok => parseRet.tier = 3

C14_Witness ==
    /\ lastOp = "cleanJsonResponse"
    /\ parseRet.ok
    /\ parseRet.tier = 2
    /\ ~JsonParse(parseArg).ok
    /\ ~ExtractionParse(parseArg).ok

\* C15: when all three tiers fail, what cleanJsonResponse raises is a
\* ParseError that carries the original response text.
C15_ErrorCarriesRawText ==
    (lastOp = "cleanJsonResponse" /\ ~parseRet.ok) =>
        /\ parseRet.error.name = "ParseError"
        /\ "raw" \in DOMAIN parseRet.error
        /\ parseRet.error.raw = parseArg

\* C16: the existence check and the insert of saveUserAnswer are not one
\* atomic step: a call that passed the check inserts its document whatever
\* the collection holds by then, so two overlapping calls with one key leave
\* two documents for that key.
C16_InsertDoesNotCheckAgain ==
    [][(lastOp' = "saved") =>
          KeyCount(store', question) = KeyCount(store, question) + 1]_vars

C16_Witness ==
    /\ lastOp = "saved"
    /\ KeyCount(store, question) = 2

\* C17: provided the AI service settles every request, isAiGenerating, set
\* when generateResult begins, is false again later, whether the call
\* returns or throws.
C17_GeneratingEnds == isAiGenerating ~> ~isAiGenerating

C17_Witness ==
    /\ lastOp = "evaluationFailed"
    /\ ~isAiGenerating
    /\ evals = <<>>

\* C18: every document saveUserAnswer inserts pairs a user answer with the
\* feedback and rating of the evaluation of exactly that answer, over every
\* sequence of Start/Stop, Record New Answer, speech results, evaluation
\* completions and saves.
C18_DocumentPairsAnswerWithItsEvaluation ==
    [][(lastOp' = "saved") =>
          \E i \in 1..Len(saves) :
              /\ saves[i].pc = "addDoc"
              /\ saves' = RemoveAt(saves, i)
              /\ store' = Append(store, AnswerDoc(saves[i]))
              /\ saves[i].evaluated = saves[i].userAnswer]_vars

\* C19: at most one generateResult call is awaiting the AI service at any
\* time, and isAiGenerating is true in every state in which one is (from
\* which the claim concludes that the aiResult left when all calls have
\* settled is that of the recording stopped last).
C19_OneEvaluationAndFlagged ==
    /\ Len(evals) <= 1
    /\ evals # <<>> => isAiGenerating

\* C20: after recordNewAnswer and the restart of capture (no restart is
\* still to come), userAnswer holds only final segments that arrived after
\* the reset: no text of a result that was there at the reset shows up in
\* userAnswer again.
C20_NoTextFromBeforeReset ==
    timers = 0 =>
        \A k \in 1..resetAt :
            \A c \in 1..Len(userAnswer) :
                userAnswer[c] # results[k].transcript[1]

=============================================================================
